---- MODULE Spec2Model ----
(***************************************************************************)
(* Model of ckanext/doi/lib/metadata.py: build_metadata_dict (extraction   *)
(* of the internal metadata record from a CKAN package dict, plugin pass,  *)
(* required-field enforcement) followed by build_xml_dict (projection to   *)
(* the DataCite document, plugin pass).                                    *)
(*                                                                         *)
(* Python values are tagged records: PNone, PStr (opaque text), PChars     *)
(* (text whose characters the code inspects), PLit (text that is a Python  *)
(* literal, carrying the value ast.literal_eval yields), PInt, PList,      *)
(* PDict and PDate.  A dict is a function from its keys to values.         *)
(***************************************************************************)
EXTENDS Integers, Sequences, FiniteSets, TLC

VARIABLES pkg_dict, env, plugins, pc, step, required, optional, errors,
          date_errors, metadata_dict, xml_dict, log, calls, raised, ran, failed,
          base_errors

vars == <<pkg_dict, env, plugins, pc, step, required, optional, errors,
          date_errors, metadata_dict, xml_dict, log, calls, raised, ran, failed,
          base_errors>>

-----------------------------------------------------------------------------
(* Bounds of the model *)

\* longest list of registered IDoi plugins
MaxPlugins == 2

\* how many inputs of one package may depart from the well-formed package
MaxDeviations == 1

-----------------------------------------------------------------------------
(* Python values *)

PNone == [t |-> "none"]

PStr(s) == [t |-> "str", s |-> s]

PChars(c) == [t |-> "str", chars |-> c]

PLit(v) == [t |-> "str", parse |-> v]

PInt(n) == [t |-> "int", n |-> n]

PList(l) == [t |-> "list", l |-> l]

PDict(d) == [t |-> "dict", d |-> d]

PDate(c) == [t |-> "date", iso |-> c]

\* {}
EmptyDict == [k \in {} |-> PNone]

Ok(v) == [ok |-> TRUE, v |-> v]

Raise(e) == [ok |-> FALSE, e |-> e]

IsNone(v) == v.t = "none"

\* dict.get(key) and dict.get(key, default) on a Python dict
Get(d, k) == IF k \in DOMAIN d THEN d[k] ELSE PNone

GetD(d, k, default) == IF k \in DOMAIN d THEN d[k] ELSE default

\* value == '' for a value of any type
IsEmptyStr(v) ==
    /\ v.t = "str"
    /\ IF "s" \in DOMAIN v THEN v.s = ""
       ELSE IF "chars" \in DOMAIN v THEN v.chars = <<>> ELSE FALSE

\* v[key] for a string key: only a dict accepts it
SubKey(v, key) ==
    IF v.t = "dict"
    THEN IF key \in DOMAIN v.d THEN Ok(v.d[key]) ELSE Raise("KeyError")
    ELSE Raise("TypeError")

\* v[i] for an integer index: a list (negative indices count from the end)
SubIdx(v, i) ==
    IF v.t = "list"
    THEN IF i >= 0 /\ i < Len(v.l) THEN Ok(v.l[i + 1])
         ELSE IF i < 0 /\ -i <= Len(v.l) THEN Ok(v.l[Len(v.l) + i + 1])
         ELSE Raise("IndexError")
    ELSE IF v.t = "dict" THEN Raise("KeyError")
    ELSE Raise("TypeError")

\* one subscript of a path: K(key) or I(index)
K(key) == [key |-> key]

I(i) == [idx |-> i]

Sub(v, k) == IF "key" \in DOMAIN k THEN SubKey(v, k.key) ELSE SubIdx(v, k.idx)

\* v[path[1]][path[2]]...: the first failing subscript decides
RECURSIVE Path(_, _)
Path(v, path) ==
    IF path = <<>> THEN Ok(v)
    ELSE LET r == Sub(v, Head(path))
         IN IF r.ok THEN Path(r.v, Tail(path)) ELSE r

\* ast.literal_eval: text of a literal gives its value, other text is a
\* syntax error, a non-string (None, a list, a number) is a malformed node
LiteralEval(v) ==
    IF v.t = "str"
    THEN IF "parse" \in DOMAIN v THEN Ok(v.parse) ELSE Raise("SyntaxError")
    ELSE Raise("ValueError")

Digits == {"0", "1", "2", "3", "4", "5", "6", "7", "8", "9"}

\* str.isdecimal(): non-empty and every character a decimal digit
IsDecimal(c) == Len(c) > 0 /\ \A i \in 1..Len(c) : c[i] \in Digits

DigitChar(d) == <<"0", "1", "2", "3", "4", "5", "6", "7", "8", "9">>[d + 1]

RECURSIVE NatChars(_)
NatChars(n) ==
    IF n < 10 THEN <<DigitChar(n)>> ELSE NatChars(n \div 10) \o <<DigitChar(n % 10)>>

\* str(v) as build_xml_dict applies it to publicationYear and to dates
PyStr(v) ==
    IF v.t = "str" THEN v
    ELSE IF v.t = "int"
    THEN PChars(IF v.n < 0 THEN <<"-">> \o NatChars(-v.n) ELSE NatChars(v.n))
    ELSE IF v.t = "none" THEN PChars(<<"N", "o", "n", "e">>)
    ELSE IF v.t = "date"
    THEN PChars(v.iso \o <<" ", "0", "0", ":", "0", "0", ":", "0", "0">>)
    ELSE PStr("<repr>")

\* len(v); None and numbers have no length (the text of a literal is not
\* kept, only that it is not empty)
PyLen(v) ==
    IF v.t = "list" THEN Ok(Len(v.l))
    ELSE IF v.t = "dict" THEN Ok(Cardinality(DOMAIN v.d))
    ELSE IF v.t = "str"
    THEN Ok(IF "chars" \in DOMAIN v THEN Len(v.chars)
            ELSE IF "s" \in DOMAIN v THEN Len(v.s)
            ELSE 1)
    ELSE Raise("TypeError")

-----------------------------------------------------------------------------
(* The error map: a Python dict keeps insertion order *)

ErrKeys(errs) == {errs[i].k : i \in 1..Len(errs)}

ErrSet(errs, k, e) ==
    IF k \in ErrKeys(errs)
    THEN [i \in 1..Len(errs) |-> IF errs[i].k = k THEN [k |-> k, e |-> e] ELSE errs[i]]
    ELSE Append(errs, [k |-> k, e |-> e])

ErrDel(errs, k) == SelectSeq(errs, LAMBDA x : x.k # k)

\* errors.get(k): the stored exception, or None
ErrGet(errs, k) ==
    IF k \in ErrKeys(errs)
    THEN errs[CHOOSE i \in 1..Len(errs) : errs[i].k = k].e
    ELSE "None"

-----------------------------------------------------------------------------
(* Required fields *)

\* outcome of one field's derivation: the value the field is left with, the
\* exception raised ("" when none) and whether the code catches it
Field(val, err, caught) == [val |-> val, err |-> err, caught |-> caught]

AuthorKeys == <<"author_name", "author_name_type", "author_affiliation",
                "author_affiliation_identifier", "author_affiliation_identifier_type",
                "author_identifier", "author_identifier_type">>

\* the first subscript of auth_dict that fails, in evaluation order
RECURSIVE FirstFailure(_, _)
FirstFailure(d, keys) ==
    IF keys = <<>> THEN ""
    ELSE LET r == SubKey(d, Head(keys))
         IN IF r.ok THEN FirstFailure(d, Tail(keys)) ELSE r.e

CreatorEntry(a) ==
    PDict([name |-> a.d["author_name"],
           nameType |-> a.d["author_name_type"],
           affiliation |-> PList(<<PDict(
               [name |-> a.d["author_affiliation"],
                affiliationIdentifier |-> a.d["author_affiliation_identifier"],
                affiliationIdentifierScheme |-> a.d["author_affiliation_identifier_type"]])>>),
           nameIdentifiers |-> PList(<<PDict(
               [nameIdentifier |-> a.d["author_identifier"],
                nameIdentifierScheme |-> a.d["author_identifier_type"]])>>)])

ContributorEntry(a) ==
    PDict([name |-> a.d["author_name"],
           contributorType |-> PStr("ContactPerson"),
           nameType |-> a.d["author_name_type"],
           affiliation |-> PList(<<PDict(
               [name |-> a.d["author_affiliation"],
                affiliationIdentifier |-> a.d["author_affiliation_identifier"],
                affiliationIdentifierScheme |-> a.d["author_affiliation_identifier_type"]])>>),
           nameIdentifiers |-> PList(<<PDict(
               [nameIdentifier |-> a.d["author_identifier"],
                nameIdentifierScheme |-> a.d["author_identifier_type"]])>>)])

\* the loop over auth_list appending to a local list: [ok, v] with the list
\* built so far, or the exception of the first entry that fails
RECURSIVE AuthorLoop(_, _, _)
AuthorLoop(items, acc, contributor) ==
    IF items = <<>> THEN Ok(acc)
    ELSE LET e == FirstFailure(Head(items), AuthorKeys)
         IN IF e # "" THEN Raise(e)
            ELSE AuthorLoop(Tail(items),
                            Append(acc, IF contributor THEN ContributorEntry(Head(items))
                                        ELSE CreatorEntry(Head(items))),
                            contributor)

\* CREATORS: the local creators_list is stored only when nothing failed
Creators(pkg) ==
    LET parsed == LiteralEval(Get(pkg, "author"))
    IN IF ~parsed.ok THEN Field(PList(<<>>), parsed.e, TRUE)
       ELSE IF parsed.v.t = "list"
       THEN LET r == AuthorLoop(parsed.v.l, <<>>, FALSE)
            IN IF r.ok THEN Field(PList(r.v), "", TRUE)
               ELSE Field(PList(<<>>), r.e, TRUE)
       ELSE Field(PList(<<>>), "", TRUE)

\* TITLES
Titles(pkg) == Field(PList(<<PDict([title |-> Get(pkg, "title")])>>), "", TRUE)

\* PUBLISHER: toolkit.config.get('ckanext.doi.publisher')
Publisher(cfg) == Field(cfg.publisher, "", TRUE)

\* datetime.datetime.now().year
CurrentYear == 2026

\* doi_date_published[:4]
Slice4(c) == SubSeq(c, 1, IF Len(c) < 4 THEN Len(c) ELSE 4)

\* PUBLICATION YEAR: the test of the date runs outside any try block
PublicationYear(pkg) ==
    LET d == Get(pkg, "doi_date_published")
    IN IF IsNone(d) THEN Field(PInt(CurrentYear), "", TRUE)
       ELSE IF d.t = "str"
       THEN IF ~IsDecimal(Slice4(d.chars)) THEN Field(PInt(CurrentYear), "", TRUE)
            ELSE Field(PChars(Slice4(d.chars)), "", TRUE)
       ELSE IF d.t = "list" THEN Field(PNone, "AttributeError", FALSE)
       ELSE Field(PNone, "TypeError", FALSE)

\* TYPE
ResourceType(pkg) == Field(Get(pkg, "type"), "", TRUE)

-----------------------------------------------------------------------------
(* Optional fields *)

\* bool(v)
Truthy(v) ==
    IF v.t = "none" THEN FALSE
    ELSE IF v.t = "int" THEN v.n # 0
    ELSE IF v.t = "list" THEN v.l # <<>>
    ELSE IF v.t = "dict" THEN DOMAIN v.d # {}
    ELSE IF v.t = "str" THEN ~IsEmptyStr(v)
    ELSE TRUE

RECURSIVE SetToSeq(_)
SetToSeq(S) ==
    IF S = {} THEN <<>>
    ELSE LET x == CHOOSE y \in S : TRUE IN <<x>> \o SetToSeq(S \ {x})

\* the items a for loop over v visits; None and numbers are not iterable
Iter(v) ==
    IF v.t = "list" THEN Ok(v.l)
    ELSE IF v.t = "dict" THEN Ok([i \in 1..Cardinality(DOMAIN v.d) |-> PStr(SetToSeq(DOMAIN v.d)[i])])
    ELSE Raise("TypeError")

\* code points of the characters tags are made of
CharOrd(c) == IF c = "," THEN 44 ELSE IF c = "a" THEN 97 ELSE IF c = "b" THEN 98 ELSE 99

\* a <= b for two strings, as Python orders them
RECURSIVE StrLeq(_, _)
StrLeq(a, b) ==
    IF a = <<>> THEN TRUE
    ELSE IF b = <<>> THEN FALSE
    ELSE IF Head(a) = Head(b) THEN StrLeq(Tail(a), Tail(b))
    ELSE CharOrd(Head(a)) < CharOrd(Head(b))

\* sorted(S) for a set of strings
RECURSIVE Sorted(_)
Sorted(S) ==
    IF S = {} THEN <<>>
    ELSE LET m == CHOOSE x \in S : \A y \in S : StrLeq(x, y)
         IN <<m>> \o Sorted(S \ {m})

\* c.split(','): always at least one piece
RECURSIVE Split(_, _)
Split(c, cur) ==
    IF c = <<>> THEN <<cur>>
    ELSE IF Head(c) = "," THEN <<cur>> \o Split(Tail(c), <<>>)
    ELSE Split(Tail(c), Append(cur, Head(c)))

\* tag['name'] if isinstance(tag, dict) else tag, for each tag
RECURSIVE TagNames(_)
TagNames(tags) ==
    IF tags = <<>> THEN Ok(<<>>)
    ELSE LET t == Head(tags)
             n == IF t.t = "dict" THEN SubKey(t, "name") ELSE Ok(t)
             rest == TagNames(Tail(tags))
         IN IF ~n.ok THEN n
            ELSE IF ~rest.ok THEN rest
            ELSE Ok(<<n.v>> \o rest.v)

\* SUBJECTS
Subjects(pkg) ==
    LET ts == GetD(pkg, "tag_string", PChars(<<>>))
        tl == IF "tags" \in DOMAIN pkg THEN Iter(pkg["tags"]) ELSE Ok(<<>>)
        names == IF tl.ok THEN TagNames(tl.v) ELSE tl
    IN IF ts.t # "str" THEN Field(PList(<<>>), "AttributeError", TRUE)
       ELSE IF ~names.ok THEN Field(PList(<<>>), names.e, TRUE)
       ELSE LET pieces == Split(ts.chars, <<>>)
                all == {pieces[i] : i \in 1..Len(pieces)}
                           \cup {names.v[i].chars : i \in 1..Len(names.v)}
                kept == Sorted({t \in all : t # <<>>})
            IN Field(PList([i \in 1..Len(kept) |-> PDict([subject |-> PChars(kept[i])])]),
                     "", TRUE)

\* CONTRIBUTORS: as creators, with the fixed contributorType
Contributors(pkg) ==
    LET parsed == LiteralEval(Get(pkg, "author"))
    IN IF ~parsed.ok THEN Field(PList(<<>>), parsed.e, TRUE)
       ELSE IF parsed.v.t = "list"
       THEN LET r == AuthorLoop(parsed.v.l, <<>>, TRUE)
            IN IF r.ok THEN Field(PList(r.v), "", TRUE)
               ELSE Field(PList(<<>>), r.e, TRUE)
       ELSE Field(PList(<<>>), "", TRUE)

\* text dateutil accepts: here YYYY-MM-DD
IsDateText(c) ==
    /\ Len(c) = 10
    /\ IsDecimal(SubSeq(c, 1, 4)) /\ c[5] = "-"
    /\ IsDecimal(SubSeq(c, 6, 7)) /\ c[8] = "-"
    /\ IsDecimal(SubSeq(c, 9, 10))

\* helpers.date_or_none: a date is kept, text is parsed, anything else is None
DateOrNone(v) ==
    IF v.t = "date" THEN Ok(v)
    ELSE IF v.t = "str"
    THEN IF "chars" \in DOMAIN v /\ IsDateText(v.chars) THEN Ok(PDate(v.chars))
         ELSE Raise("ParserError")
    ELSE Ok(PNone)

DateEntry(type, date) == PDict([dateType |-> PStr(type), date |-> date])

\* DATES: each entry is appended in its own try block; a failure is kept in
\* date_errors, which nothing reads afterwards
Dates(pkg) ==
    LET c == DateOrNone(Get(pkg, "metadata_created"))
        u == DateOrNone(Get(pkg, "metadata_modified"))
        p == DateOrNone(Get(pkg, "doi_date_published"))
        issued == "doi_date_published" \in DOMAIN pkg
        entries == (IF c.ok THEN <<DateEntry("Created", c.v)>> ELSE <<>>)
                   \o (IF u.ok THEN <<DateEntry("Updated", u.v)>> ELSE <<>>)
                   \o (IF issued /\ p.ok THEN <<DateEntry("Issued", p.v)>> ELSE <<>>)
        derr == (IF c.ok THEN <<>> ELSE <<[k |-> "created", e |-> c.e]>>)
                \o (IF u.ok THEN <<>> ELSE <<[k |-> "updated", e |-> u.e]>>)
                \o (IF issued /\ ~p.ok THEN <<[k |-> "doi_date_published", e |-> p.e]>>
                    ELSE <<>>)
    IN [val |-> PList(entries), err |-> "", caught |-> TRUE, derr |-> derr]

\* LANGUAGE: ckan.lib.helpers.lang() needs a request context
Language(cfg) ==
    IF cfg.lang_raises THEN Field(PStr(""), "RuntimeError", TRUE)
    ELSE Field(cfg.lang, "", TRUE)

\* a value inside an f-string
Fmt(v) ==
    IF v.t = "str" /\ "s" \in DOMAIN v THEN v.s
    ELSE IF v.t = "none" THEN "None"
    ELSE IF v.t = "int" THEN ToString(v.n)
    ELSE "<repr>"

\* ALTERNATE IDENTIFIERS: get_site_url() is evaluated before pkg_dict["id"]
AlternateIdentifiers(pkg, cfg) ==
    IF cfg.site_url.t # "str" THEN Field(PList(<<>>), "AttributeError", TRUE)
    ELSE IF "id" \notin DOMAIN pkg THEN Field(PList(<<>>), "KeyError", TRUE)
    ELSE Field(PList(<<PDict(
             [alternateIdentifierType |-> PStr("URL"),
              alternateIdentifier |->
                  PStr(cfg.site_url.s \o "/dataset/" \o Fmt(pkg["id"]))])>>), "", TRUE)

\* the loop appends to optional['relatedIdentifiers'] itself: what was
\* appended before a failing entry stays
RECURSIVE RelatedLoop(_, _)
RelatedLoop(items, acc) ==
    IF items = <<>> THEN Field(PList(acc), "", TRUE)
    ELSE LET url == SubKey(Head(items), "related_resource_url")
             rel == SubKey(Head(items), "relation_type")
         IN IF ~url.ok THEN Field(PList(acc), url.e, TRUE)
            ELSE IF ~rel.ok THEN Field(PList(acc), rel.e, TRUE)
            ELSE RelatedLoop(Tail(items),
                     Append(acc, PDict([relatedIdentifier |-> url.v,
                                        relatedIdentifierType |-> PStr("URL"),
                                        relationType |-> rel.v])))

\* RELATED IDENTIFIERS
RelatedIdentifiers(pkg) ==
    LET parsed == LiteralEval(Get(pkg, "related_resource"))
    IN IF ~parsed.ok THEN Field(PList(<<>>), parsed.e, TRUE)
       ELSE IF parsed.v.t = "list" THEN RelatedLoop(parsed.v.l, <<>>)
       ELSE Field(PList(<<>>), "", TRUE)

\* pkg_dict.get('resources', []) or []
Resources(pkg) ==
    LET r == GetD(pkg, "resources", PList(<<>>))
    IN IF Truthy(r) THEN r ELSE PList(<<>>)

\* [r.get(key) for r in resources]; with orZero, r.get(key) or 0
RECURSIVE ResourceValues(_, _, _)
ResourceValues(items, key, orZero) ==
    IF items = <<>> THEN Ok(<<>>)
    ELSE LET r == Head(items)
             rest == ResourceValues(Tail(items), key, orZero)
         IN IF r.t # "dict" THEN Raise("AttributeError")
            ELSE IF ~rest.ok THEN rest
            ELSE LET v == Get(r.d, key)
                 IN Ok(<<IF orZero /\ ~Truthy(v) THEN PInt(0) ELSE v>> \o rest.v)

\* sum(values): only numbers add up
RECURSIVE Sum(_)
Sum(vs) ==
    IF vs = <<>> THEN Ok(0)
    ELSE LET rest == Sum(Tail(vs))
         IN IF Head(vs).t # "int" THEN Raise("TypeError")
            ELSE IF ~rest.ok THEN rest
            ELSE Ok(Head(vs).n + rest.v)

\* int(n / 1024): float division, then truncation towards zero
Kilobytes(n) == IF n >= 0 THEN n \div 1024 ELSE -((-n) \div 1024)

\* SIZES
Sizes(pkg) ==
    LET it == Iter(Resources(pkg))
        vals == IF it.ok THEN ResourceValues(it.v, "size", TRUE) ELSE it
        total == IF vals.ok THEN Sum(vals.v) ELSE vals
    IN IF ~total.ok THEN Field(PList(<<>>), total.e, TRUE)
       ELSE Field(PList(<<PStr(ToString(Kilobytes(total.v)) \o " kb")>>), "", TRUE)

\* every order one set of values can be listed in
RECURSIVE Perms(_)
Perms(S) ==
    IF S = {} THEN {<<>>}
    ELSE UNION {{<<x>> \o p : p \in Perms(S \ {x})} : x \in S}

\* FORMATS: list(set(...)) lists the distinct truthy formats in the order the
\* set happens to hold them; each order is one possible outcome
Formats(pkg) ==
    LET it == Iter(Resources(pkg))
        vals == IF it.ok THEN ResourceValues(it.v, "format", FALSE) ELSE it
    IN IF ~vals.ok THEN {Field(PList(<<>>), vals.e, TRUE)}
       ELSE {Field(PList(p), "", TRUE) :
                p \in Perms({vals.v[i] : i \in {j \in 1..Len(vals.v) : Truthy(vals.v[j])}})}

\* VERSION: no try block, and none needed
Version(pkg) == Field(Get(pkg, "version"), "", TRUE)

\* license_id, falling back to license when license_id is None
LicenseId(pkg) ==
    IF IsNone(Get(pkg, "license_id")) THEN GetD(pkg, "license", PStr(""))
    ELSE Get(pkg, "license_id")

\* a derivation that asks the registry first and leaves an empty identifier
\* without an entry
RightsListRegistryFirst(pkg, cfg) ==
    LET license_id == LicenseId(pkg)
    IN IF license_id.t = "str" /\ "s" \in DOMAIN license_id
          /\ license_id.s \in DOMAIN cfg.registry /\ ~cfg.registry_raises
       THEN Field(PList(<<PDict(
                [rightsUri |-> cfg.registry[license_id.s].url,
                 rightsIdentifier |-> cfg.registry[license_id.s].id])>>), "", TRUE)
       ELSE IF license_id = PStr("cc-by-4.0-international")
       THEN Field(PList(<<PDict(
                [rightsUri |-> PStr("https://spdx.org/licenses/CC-BY-4.0.html"),
                 rightsIdentifier |-> PStr("CC-BY-4.0"),
                 rightsIdentifierScheme |-> PStr("SPDX")])>>), "", TRUE)
       ELSE Field(PList(<<>>), "", TRUE)

\* RIGHTS
RightsList(pkg, cfg) ==
    LET license_id == LicenseId(pkg)
    IN IF license_id = PStr("cc-by-4.0-international")
       THEN Field(PList(<<PDict(
                [rightsUri |-> PStr("https://spdx.org/licenses/CC-BY-4.0.html"),
                 rightsIdentifier |-> PStr("CC-BY-4.0"),
                 rightsIdentifierScheme |-> PStr("SPDX")])>>), "", TRUE)
       ELSE IF ~IsEmptyStr(license_id) /\ ~IsNone(license_id)
       THEN IF cfg.registry_raises THEN Field(PList(<<>>), "Exception", TRUE)
            ELSE IF license_id.t = "str" /\ "s" \in DOMAIN license_id
                    /\ license_id.s \in DOMAIN cfg.registry
            THEN Field(PList(<<PDict(
                     [rightsUri |-> cfg.registry[license_id.s].url,
                      rightsIdentifier |-> cfg.registry[license_id.s].id])>>), "", TRUE)
            ELSE Field(PList(<<>>), "", TRUE)
       ELSE Field(PList(<<PDict([rights |-> license_id])>>), "", TRUE)

\* DESCRIPTIONS
Descriptions(pkg) ==
    Field(PList(<<PDict([descriptionType |-> PStr("Other"),
                         description |-> GetD(pkg, "notes", PStr(""))])>>), "", TRUE)

RECURSIVE CharsToNat(_)
CharsToNat(c) ==
    IF c = <<>> THEN 0
    ELSE 10 * CharsToNat(SubSeq(c, 1, Len(c) - 1))
         + (CHOOSE d \in 0..9 : DigitChar(d) = c[Len(c)])

\* float(v): a number, or text of decimal digits; other text is a ValueError
\* and any other type a TypeError
ToFloat(v) ==
    IF v.t = "int" THEN Ok(v.n)
    ELSE IF v.t = "str"
    THEN IF "chars" \in DOMAIN v /\ IsDecimal(v.chars) THEN Ok(CharsToNat(v.chars))
         ELSE Raise("ValueError")
    ELSE Raise("TypeError")

\* str(float(v)) for each subscript path of paths, in order: the strings, or
\* the first exception
RECURSIVE FloatStrs(_, _)
FloatStrs(v, paths) ==
    IF paths = <<>> THEN Ok(<<>>)
    ELSE LET x == Path(v, Head(paths))
             f == IF x.ok THEN ToFloat(x.v) ELSE x
             rest == FloatStrs(v, Tail(paths))
         IN IF ~f.ok THEN f
            ELSE IF ~rest.ok THEN rest
            ELSE Ok(<<PStr(ToString(f.v) \o ".0")>> \o rest.v)

\* one feature of the 'point' loop: the entry to append (<<>> when the
\* geometry is no Point), or the exception
PointEntry(feat) ==
    LET type == Path(feat, <<K("geometry"), K("type")>>)
        coords == Path(feat, <<K("geometry"), K("coordinates")>>)
        f == IF coords.ok THEN FloatStrs(coords.v, <<<<I(0)>>, <<I(1)>>>>) ELSE coords
    IN IF ~type.ok THEN type
       ELSE IF type.v # PStr("Point") THEN Ok(<<>>)
       ELSE IF ~f.ok THEN f
       ELSE Ok(<<PDict([geoLocationPoint |->
                    PDict([pointLongitude |-> f.v[1], pointLatitude |-> f.v[2]])])>>)

\* one feature of the 'area' loop; the dict literal evaluates west, east,
\* south, north in this order
BoxEntry(feat) ==
    LET type == Path(feat, <<K("geometry"), K("type")>>)
        ring == Path(feat, <<K("geometry"), K("coordinates"), I(0)>>)
        f == IF ring.ok
             THEN FloatStrs(ring.v, <<<<I(0), I(0)>>, <<I(2), I(0)>>,
                                      <<I(0), I(1)>>, <<I(1), I(1)>>>>)
             ELSE ring
    IN IF ~type.ok THEN type
       ELSE IF type.v # PStr("Polygon") THEN Ok(<<>>)
       ELSE IF ~f.ok THEN f
       ELSE Ok(<<PDict([geoLocationBox |->
                    PDict([westBoundLongitude |-> f.v[1], eastBoundLongitude |-> f.v[2],
                           southBoundLatitude |-> f.v[3], northBoundLatitude |-> f.v[4]])])>>)

\* except (ValueError, KeyError, IndexError)
GeoCaught(e) == e \in {"ValueError", "KeyError", "IndexError"}

\* the loop appends to optional['geoLocations'] itself
RECURSIVE GeoLoop(_, _, _)
GeoLoop(feats, acc, area) ==
    IF feats = <<>> THEN Field(PList(acc), "", TRUE)
    ELSE LET r == IF area THEN BoxEntry(Head(feats)) ELSE PointEntry(Head(feats))
         IN IF ~r.ok THEN Field(PList(acc), r.e, GeoCaught(r.e))
            ELSE GeoLoop(Tail(feats), acc \o r.v, area)

\* GEOLOCATIONS
GeoLocations(pkg) ==
    LET choice == Get(pkg, "location_choice")
        feats == Path(PDict(pkg), <<K("location_data"), K("features")>>)
        it == IF feats.ok THEN Iter(feats.v) ELSE feats
    IN IF choice \notin {PStr("point"), PStr("area")} THEN Field(PList(<<>>), "", TRUE)
       ELSE IF ~it.ok THEN Field(PList(<<>>), it.e, GeoCaught(it.e))
       ELSE GeoLoop(it.v, <<>>, choice = PStr("area"))

\* 'Wikidata' and '' are not identifier types of schema 4.3
FunderIdType(t) == IF t = PStr("Wikidata") \/ IsEmptyStr(t) THEN PStr("Other") ELSE t

\* the loop appends to optional['fundingReferences'] itself
RECURSIVE FunderLoop(_, _)
FunderLoop(items, acc) ==
    IF items = <<>> THEN Field(PList(acc), "", TRUE)
    ELSE LET type == SubKey(Head(items), "funder_identifier_type")
             name == SubKey(Head(items), "funder_name")
             id == SubKey(Head(items), "funder_identifier")
         IN IF ~type.ok THEN Field(PList(acc), type.e, TRUE)
            ELSE IF ~name.ok THEN Field(PList(acc), name.e, TRUE)
            ELSE IF ~id.ok THEN Field(PList(acc), id.e, TRUE)
            ELSE FunderLoop(Tail(items),
                     Append(acc, PDict([funderName |-> name.v,
                                        funderIdentifier |-> id.v,
                                        funderIdentifierType |-> FunderIdType(type.v)])))

\* FUNDING: skipped when funder is '' or absent
FundingReferences(pkg) ==
    LET parsed == LiteralEval(Get(pkg, "funder"))
        it == IF parsed.ok THEN Iter(parsed.v) ELSE parsed
    IN IF IsEmptyStr(GetD(pkg, "funder", PStr(""))) THEN Field(PList(<<>>), "", TRUE)
       ELSE IF ~it.ok THEN Field(PList(<<>>), it.e, TRUE)
       ELSE FunderLoop(it.v, <<>>)

-----------------------------------------------------------------------------
(* Registered IDoi plugins.  What an implementation does is its own        *)
(* business; these are the behaviours the model registers.                 *)

PluginKinds == {"noop", "repair_clear", "repair_keep", "null_publisher",
                "append_a", "append_b", "odd_values", "bad_dates", "clear_optional"}

RequiredKeys == {"creators", "titles", "publisher", "publicationYear", "resourceType"}

OptionalKeys == {"subjects", "contributors", "dates", "language", "alternateIdentifiers",
                 "relatedIdentifiers", "sizes", "formats", "version", "rightsList",
                 "descriptions", "geoLocations", "fundingReferences"}

\* what a repairing plugin stores under a required key
Repaired(k) ==
    IF k \in {"creators", "titles"} THEN PList(<<PDict([name |-> PStr("repaired")])>>)
    ELSE IF k = "publicationYear" THEN PInt(CurrentYear)
    ELSE PStr("repaired")

Broken(md, errs) == {k \in RequiredKeys : k \in ErrKeys(errs) \/ IsNone(Get(md, k))}

RECURSIVE ErrDelAll(_, _)
ErrDelAll(errs, ks) ==
    IF ks = {} THEN errs
    ELSE LET k == CHOOSE x \in ks : TRUE IN ErrDelAll(ErrDel(errs, k), ks \ {k})

AppendTo(v, c) == IF v.t = "str" /\ "s" \in DOMAIN v THEN PStr(v.s \o c) ELSE PStr(c)

\* plugin.build_metadata_dict(pkg_dict, metadata_dict, errors)
PluginMetadata(kind, pkg, md, errs) ==
    IF kind \in {"repair_clear", "repair_keep"}
    THEN [md |-> [k \in DOMAIN md |-> IF k \in Broken(md, errs) THEN Repaired(k) ELSE md[k]],
          errs |-> IF kind = "repair_clear" THEN ErrDelAll(errs, Broken(md, errs)) ELSE errs]
    ELSE IF kind = "null_publisher"
    THEN [md |-> [md EXCEPT !["publisher"] = PNone], errs |-> errs]
    ELSE IF kind = "append_a"
    THEN [md |-> [md EXCEPT !["version"] = AppendTo(@, "a")], errs |-> errs]
    ELSE IF kind = "append_b"
    THEN [md |-> [md EXCEPT !["version"] = AppendTo(@, "b")], errs |-> errs]
    ELSE IF kind = "odd_values"
    THEN [md |-> [md EXCEPT !["sizes"] = PInt(5), !["formats"] = PNone,
                            !["language"] = PStr(""), !["subjects"] = PList(<<>>),
                            !["descriptions"] = PDict(EmptyDict),
                            !["publicationYear"] = PInt(CurrentYear)],
          errs |-> errs]
    ELSE IF kind = "bad_dates"
    THEN [md |-> [md EXCEPT !["dates"] = PList(<<PStr("yesterday")>>)], errs |-> errs]
    ELSE IF kind = "clear_optional"
    THEN [md |-> [k \in DOMAIN md |-> IF k \in OptionalKeys THEN PList(<<>>) ELSE md[k]],
          errs |-> errs]
    ELSE [md |-> md, errs |-> errs]

\* plugin.build_xml_dict(metadata_dict, xml_dict)
PluginXml(kind, md, xml) ==
    IF kind = "append_a"
    THEN ("version" :> AppendTo(Get(xml, "version"), "a")) @@ xml
    ELSE IF kind = "append_b"
    THEN ("version" :> AppendTo(Get(xml, "version"), "b")) @@ xml
    ELSE IF kind = "null_publisher"
    THEN [k \in DOMAIN xml \ {"publisher"} |-> xml[k]]
    ELSE xml

\* a loop that walks the registered plugins from the last to the first
PluginAtReversed(ps, i) == ps[Len(ps) + 1 - i]

\* the plugin the i-th turn of "for plugin in PluginImplementations(IDoi)" calls
PluginAt(ps, i) == ps[i]

-----------------------------------------------------------------------------
(* Required-field enforcement *)

RequiredOrder == <<"creators", "titles", "publisher", "publicationYear", "resourceType">>

\* an enforcement that trusts the error map alone
SynthesizeNothing(md, errs, keys) == errs

\* for k in required: a None value without a recorded error gets one
RECURSIVE Synthesize(_, _, _)
Synthesize(md, errs, keys) ==
    IF keys = <<>> THEN errs
    ELSE Synthesize(md,
                    IF IsNone(Get(md, Head(keys))) /\ ErrGet(errs, Head(keys)) = "None"
                    THEN ErrSet(errs, Head(keys), "DOIMetadataException")
                    ELSE errs,
                    Tail(keys))

\* {k: e for k, e in errors.items() if k in required}
RequiredErrors(errs) == SelectSeq(errs, LAMBDA x : x.k \in RequiredKeys)

OptionalErrors(errs) == SelectSeq(errs, LAMBDA x : x.k \in OptionalKeys)

\* ", ".join(d): the keys, in the order the dict holds them
KeysOf(errs) == [i \in 1..Len(errs) |-> errs[i].k]

\* the log calls made for one group of errors: the summary, then one per key
LogEntries(level, errs) ==
    <<[level |-> level, keys |-> KeysOf(errs)]>>
    \o [i \in 1..Len(errs) |-> [level |-> level, keys |-> <<errs[i].k>>]]

\* the debug log of the optional errors is guarded by the count of the
\* required errors, which is zero once the raise above was not taken
OptionalLog(errs) ==
    IF Len(RequiredErrors(errs)) > 0 THEN LogEntries("debug", OptionalErrors(errs))
    ELSE <<>>

-----------------------------------------------------------------------------
(* build_xml_dict *)

\* a test that forgets the length
HasValueNotNone(v) == ~IsNone(v)

\* v is not None and len(v) > 0, False when len() raises
HasValue(v) ==
    LET n == PyLen(v) IN ~IsNone(v) /\ n.ok /\ n.v > 0

\* the copy of the dates with every date as a string
RECURSIVE DateCopies(_)
DateCopies(entries) ==
    IF entries = <<>> THEN Ok(<<>>)
    ELSE LET d == Head(entries)
             rest == DateCopies(Tail(entries))
         IN IF d.t # "dict" THEN Raise("AttributeError")
            ELSE IF "date" \notin DOMAIN d.d THEN Raise("KeyError")
            ELSE IF ~rest.ok THEN rest
            ELSE Ok(<<PDict([d.d EXCEPT !["date"] = PyStr(@)])>> \o rest.v)

\* the characters or keys a loop over a non-list visits are no dicts
DatesItem(v) ==
    IF v.t = "list"
    THEN LET c == DateCopies(v.l) IN IF c.ok THEN Ok(PList(c.v)) ELSE c
    ELSE Raise("AttributeError")

XmlRequired(md) ==
    [creators |-> GetD(md, "creators", PList(<<>>)),
     titles |-> GetD(md, "titles", PList(<<>>)),
     publisher |-> Get(md, "publisher"),
     publicationYear |-> PyStr(Get(md, "publicationYear")),
     types |-> PDict([resourceType |-> Get(md, "resourceType"),
                      resourceTypeGeneral |-> PStr("Dataset")]),
     schemaVersion |-> PStr("http://datacite.org/schema/kernel-4")]

\* the document before the plugins see it, or the exception of the dates copy
XmlDict(md) ==
    LET kept == {k \in OptionalKeys : HasValue(Get(md, k))}
        dates == DatesItem(Get(md, "dates"))
    IN IF "dates" \in kept /\ ~dates.ok THEN dates
       ELSE Ok([k \in kept |-> IF k = "dates" THEN dates.v ELSE md[k]] @@ XmlRequired(md))

-----------------------------------------------------------------------------
(* Inputs: a well-formed package and deployment, and the ways one input    *)
(* may depart from it                                                      *)

C(s) == PChars(s)

IsoDay == <<"2", "0", "2", "1", "-", "0", "5", "-", "1", "0">>

Author(name) ==
    PDict([author_name |-> PStr(name), author_name_type |-> PStr("Personal"),
           author_affiliation |-> PStr("Org"),
           author_affiliation_identifier |-> PStr("ror-1"),
           author_affiliation_identifier_type |-> PStr("ROR"),
           author_identifier |-> PStr("orcid-1"),
           author_identifier_type |-> PStr("ORCID")])

Related(url) == PDict([related_resource_url |-> PStr(url), relation_type |-> PStr("Cites")])

Funder(type) ==
    PDict([funder_name |-> PStr("F"), funder_identifier |-> PStr("f-1"),
           funder_identifier_type |-> PStr(type)])

Resource(size, format) == PDict([size |-> size, format |-> format])

Feature(type, coords) ==
    PDict([geometry |-> PDict([type |-> PStr(type), coordinates |-> coords])])

Pt(x, y) == PList(<<x, y>>)

Ring == PList(<<PList(<<Pt(PInt(1), PInt(2)), Pt(PInt(1), PInt(4)),
                        Pt(PInt(3), PInt(4)), Pt(PInt(3), PInt(2))>>)>>)

Features(fs) == PDict([features |-> PList(fs)])

BasePkg ==
    [author |-> PLit(PList(<<Author("A")>>)),
     title |-> PStr("T"),
     type |-> PStr("dataset"),
     doi_date_published |-> C(IsoDay),
     tag_string |-> C(<<"b", ",", "a", ",">>),
     tags |-> PList(<<C(<<"c">>), PDict([name |-> C(<<"a">>)])>>),
     metadata_created |-> C(IsoDay),
     metadata_modified |-> C(IsoDay),
     id |-> PStr("pkg-1"),
     related_resource |-> PLit(PList(<<Related("u1")>>)),
     resources |-> PList(<<Resource(PInt(1024), PStr("CSV")), Resource(PInt(2048), PStr("PDF")),
                           Resource(PNone, PStr(""))>>),
     version |-> PStr("1"),
     license_id |-> PStr("cc-by-4.0-international"),
     notes |-> PStr("N"),
     location_choice |-> PStr("point"),
     location_data |-> Features(<<Feature("Point", Pt(PInt(10), C(<<"2", "0">>))),
                                  Feature("Polygon", Ring)>>),
     funder |-> PLit(PList(<<Funder("Wikidata"), Funder("ROR"), Funder("")>>))]

BaseEnv ==
    [publisher |-> PStr("P"), lang |-> PStr("en"), lang_raises |-> FALSE,
     site_url |-> PStr("https://site"), registry_raises |-> FALSE,
     registry |-> [x \in {"odc-by"} |-> [url |-> PStr("https://odc/by"), id |-> PStr("odc-by")]]]

Drop(group, keys) == [group |-> group, drop |-> keys, set |-> EmptyDict, cfg |-> EmptyDict]

SetTo(group, key, v) == [group |-> group, drop |-> {}, set |-> (key :> v), cfg |-> EmptyDict]

Cfg(group, key, v) == [group |-> group, drop |-> {}, set |-> EmptyDict, cfg |-> (key :> v)]

Geo(choice, data) ==
    [group |-> "geo", drop |-> {}, cfg |-> EmptyDict,
     set |-> ("location_choice" :> PStr(choice)) @@ ("location_data" :> data)]

\* the inputs the required keys are derived from, missing
RequiredDeviations ==
    <<Drop("author", {"author"}), Drop("title", {"title"}), Drop("type", {"type"}),
      Cfg("publisher", "publisher", PNone)>>

Deviations ==
    RequiredDeviations \o
    <<SetTo("author", "author", PStr("[{")),
      SetTo("author", "author", PLit(PDict([author_name |-> PStr("A")]))),
      SetTo("author", "author", PLit(PInt(5))),
      SetTo("author", "author", PLit(PList(<<>>))),
      SetTo("author", "author", PLit(PList(<<Author("A"), PDict([author_name |-> PStr("B")])>>))),
      SetTo("author", "author", PLit(PList(<<Author("A"), Author("B")>>))),
      SetTo("title", "title", PNone),
      Drop("date", {"doi_date_published"}),
      SetTo("date", "doi_date_published", PNone),
      SetTo("date", "doi_date_published", C(<<"a", "b", "c", "d", "-", "0", "5", "-", "1", "0">>)),
      SetTo("date", "doi_date_published", C(<<"2", "0", "a", "1", "-", "0", "5">>)),
      SetTo("date", "doi_date_published", C(<<"2", "0", "2">>)),
      SetTo("date", "doi_date_published", C(<<"1", "9", "9", "9">>)),
      SetTo("date", "doi_date_published", C(<<>>)),
      SetTo("date", "doi_date_published", PInt(20210510)),
      SetTo("date", "doi_date_published", PList(<<PInt(2021)>>)),
      Drop("tags", {"tag_string", "tags"}),
      SetTo("tags", "tag_string", PNone),
      SetTo("tags", "tags", PNone),
      SetTo("tags", "tags", PList(<<PDict([id |-> C(<<"a">>)])>>)),
      Drop("created", {"metadata_created"}),
      SetTo("created", "metadata_created", C(<<"s", "o", "o", "n">>)),
      SetTo("modified", "metadata_modified", C(<<"s", "o", "o", "n">>)),
      Drop("id", {"id"}),
      Drop("related", {"related_resource"}),
      SetTo("related", "related_resource", PStr("[{")),
      SetTo("related", "related_resource", PLit(PDict([related_resource_url |-> PStr("u")]))),
      SetTo("related", "related_resource",
            PLit(PList(<<Related("u1"), PDict([related_resource_url |-> PStr("u2")])>>))),
      Drop("resources", {"resources"}),
      SetTo("resources", "resources", PNone),
      SetTo("resources", "resources", PInt(3)),
      SetTo("resources", "resources", PList(<<Resource(PStr("1024"), PStr("CSV"))>>)),
      SetTo("resources", "resources", PList(<<Resource(PInt(-2047), PStr("CSV")), PStr("r")>>)),
      Drop("version", {"version"}),
      Drop("license", {"license_id"}),
      SetTo("license", "license_id", PStr("")),
      SetTo("license", "license_id", PStr("odc-by")),
      SetTo("license", "license_id", PStr("other")),
      SetTo("license", "license_id", PInt(7)),
      [group |-> "license", drop |-> {"license_id"}, cfg |-> EmptyDict,
       set |-> ("license" :> PStr("odc-by"))],
      [group |-> "license", drop |-> {"license_id"}, cfg |-> EmptyDict,
       set |-> ("license" :> PNone)],
      [group |-> "license", drop |-> {}, cfg |-> ("registry_raises" :> TRUE),
       set |-> ("license_id" :> PStr("odc-by"))],
      Drop("notes", {"notes"}),
      Drop("geo", {"location_choice"}),
      Drop("geo", {"location_data"}),
      SetTo("geo", "location_choice", PStr("line")),
      SetTo("geo", "location_data", PNone),
      SetTo("geo", "location_data", PDict([type |-> PStr("FeatureCollection")])),
      Geo("point", Features(<<Feature("Point", Pt(PInt(1), PInt(2))),
                              Feature("Point", Pt(PInt(1), PStr("north")))>>)),
      Geo("point", Features(<<Feature("Point", Pt(PInt(1), PInt(2))),
                              Feature("Point", PList(<<PInt(1)>>))>>)),
      Geo("point", Features(<<Feature("Point", Pt(PInt(1), PNone))>>)),
      Geo("area", BasePkg.location_data),
      Geo("area", Features(<<Feature("Polygon", Ring),
                             Feature("Polygon", PList(<<PList(<<Pt(PInt(1), PInt(2))>>)>>))>>)),
      Geo("area", Features(<<Feature("Polygon", PNone)>>)),
      Drop("funder", {"funder"}),
      SetTo("funder", "funder", PStr("")),
      SetTo("funder", "funder", PNone),
      SetTo("funder", "funder", PStr("[{")),
      SetTo("funder", "funder", PLit(PInt(3))),
      SetTo("funder", "funder",
            PLit(PList(<<Funder("ROR"), PDict([funder_name |-> PStr("G")])>>))),
      Cfg("lang", "lang_raises", TRUE),
      Cfg("site", "site_url", PNone)>>

\* the package and the deployment with the deviations D (indices) applied
PkgWith(D) ==
    LET drops == UNION {Deviations[i].drop : i \in D}
        sets == UNION {DOMAIN Deviations[i].set : i \in D}
        ValueOf(k) == IF k \in sets
                      THEN Deviations[CHOOSE i \in D : k \in DOMAIN Deviations[i].set].set[k]
                      ELSE BasePkg[k]
    IN [k \in ((DOMAIN BasePkg) \ drops) \cup sets |-> ValueOf(k)]

EnvWith(D) ==
    LET sets == UNION {DOMAIN Deviations[i].cfg : i \in D}
    IN [k \in DOMAIN BaseEnv |->
           IF k \in sets
           THEN Deviations[CHOOSE i \in D : k \in DOMAIN Deviations[i].cfg].cfg[k]
           ELSE BaseEnv[k]]

\* at most one deviation per input
Compatible(D) == \A i, j \in D : i # j => Deviations[i].group # Deviations[j].group

\* the sets of at most n deviations
RECURSIVE UpTo(_)
UpTo(n) ==
    IF n = 0 THEN {{}}
    ELSE UpTo(n - 1) \cup {S \cup {i} : S \in UpTo(n - 1), i \in 1..Len(Deviations)}

\* a package departs in at most MaxDeviations inputs, or in any of the inputs
\* of the required keys
DeviationSets ==
    {D \in UpTo(MaxDeviations) \cup SUBSET (1..Len(RequiredDeviations)) : Compatible(D)}

RECURSIVE Lists(_, _)
Lists(S, n) ==
    IF n = 0 THEN {<<>>}
    ELSE Lists(S, n - 1) \cup {Append(l, x) : l \in Lists(S, n - 1), x \in S}

-----------------------------------------------------------------------------
(* The state machine *)

FieldOrder ==
    <<"creators", "titles", "publisher", "publicationYear", "resourceType",
      "subjects", "contributors", "dates", "language", "alternateIdentifiers",
      "relatedIdentifiers", "sizes", "formats", "version", "rightsList",
      "descriptions", "geoLocations", "fundingReferences">>

RequiredInit ==
    [creators |-> PList(<<>>), titles |-> PList(<<>>), publisher |-> PNone,
     publicationYear |-> PNone, resourceType |-> PNone]

OptionalInit ==
    [subjects |-> PList(<<>>), contributors |-> PList(<<>>), dates |-> PList(<<>>),
     language |-> PStr(""), alternateIdentifiers |-> PList(<<>>),
     relatedIdentifiers |-> PList(<<>>), sizes |-> PList(<<>>), formats |-> PList(<<>>),
     version |-> PStr(""), rightsList |-> PList(<<>>), descriptions |-> PList(<<>>),
     geoLocations |-> PList(<<>>), fundingReferences |-> PList(<<>>)]

NoException == [type |-> "", keys |-> <<>>]

\* the possible outcomes of deriving field k
Outcomes(k, pkg, cfg) ==
    CASE k = "creators" -> {Creators(pkg)}
      [] k = "titles" -> {Titles(pkg)}
      [] k = "publisher" -> {Publisher(cfg)}
      [] k = "publicationYear" -> {PublicationYear(pkg)}
      [] k = "resourceType" -> {ResourceType(pkg)}
      [] k = "subjects" -> {Subjects(pkg)}
      [] k = "contributors" -> {Contributors(pkg)}
      [] k = "dates" -> {Dates(pkg)}
      [] k = "language" -> {Language(cfg)}
      [] k = "alternateIdentifiers" -> {AlternateIdentifiers(pkg, cfg)}
      [] k = "relatedIdentifiers" -> {RelatedIdentifiers(pkg)}
      [] k = "sizes" -> {Sizes(pkg)}
      [] k = "formats" -> Formats(pkg)
      [] k = "version" -> {Version(pkg)}
      [] k = "rightsList" -> {RightsList(pkg, cfg)}
      [] k = "descriptions" -> {Descriptions(pkg)}
      [] k = "geoLocations" -> {GeoLocations(pkg)}
      [] k = "fundingReferences" -> {FundingReferences(pkg)}

Init ==
    /\ \E D \in DeviationSets :
          /\ pkg_dict = PkgWith(D)
          /\ env = EnvWith(D)
          /\ plugins \in IF D \subseteq 1..Len(RequiredDeviations)
                         THEN Lists(PluginKinds, MaxPlugins)
                         ELSE {<<>>, <<"noop">>}
    /\ pc = "derive"
    /\ step = 1
    /\ required = RequiredInit
    /\ optional = OptionalInit
    /\ errors = <<>>
    /\ date_errors = <<>>
    /\ metadata_dict = EmptyDict
    /\ xml_dict = EmptyDict
    /\ log = <<>>
    /\ calls = <<>>
    /\ raised = NoException
    /\ ran = {}
    /\ failed = {}
    /\ base_errors = <<>>

\* one field of build_metadata_dict, in the order of the code; the last one
\* is followed by the two metadata_dict.update calls
Derive ==
    /\ pc = "derive"
    /\ \E r \in Outcomes(FieldOrder[step], pkg_dict, env) :
          LET k == FieldOrder[step]
              derr == IF k = "dates" THEN r.derr ELSE <<>>
              errs == IF r.err # "" THEN ErrSet(errors, k, r.err) ELSE errors
              req == IF k \in RequiredKeys THEN [required EXCEPT ![k] = r.val] ELSE required
              opt == IF k \in OptionalKeys THEN [optional EXCEPT ![k] = r.val] ELSE optional
          IN /\ ran' = ran \cup {k}
             /\ failed' = IF r.err # "" \/ derr # <<>> THEN failed \cup {k} ELSE failed
             /\ IF r.err # "" /\ ~r.caught
                THEN /\ pc' = "raised"
                     /\ raised' = [type |-> r.err, keys |-> <<>>]
                     /\ UNCHANGED <<step, required, optional, errors, date_errors,
                                    metadata_dict, base_errors>>
                ELSE /\ required' = req
                     /\ optional' = opt
                     /\ errors' = errs
                     /\ date_errors' = IF k = "dates" THEN derr ELSE date_errors
                     /\ raised' = raised
                     /\ IF step = Len(FieldOrder)
                        THEN /\ pc' = "plugins"
                             /\ step' = 1
                             /\ metadata_dict' = opt @@ req
                             /\ base_errors' = errs
                        ELSE /\ pc' = "derive"
                             /\ step' = step + 1
                             /\ UNCHANGED <<metadata_dict, base_errors>>
    /\ UNCHANGED <<pkg_dict, env, plugins, xml_dict, log, calls>>

\* one turn of the plugin loop of build_metadata_dict
PluginMetadataStep ==
    /\ pc = "plugins"
    /\ step <= Len(plugins)
    /\ LET r == PluginMetadata(PluginAt(plugins, step), pkg_dict, metadata_dict, errors)
       IN /\ metadata_dict' = r.md
          /\ errors' = r.errs
    /\ calls' = Append(calls, [pass |-> "metadata", plugin |-> PluginAt(plugins, step)])
    /\ step' = step + 1
    /\ UNCHANGED <<pkg_dict, env, plugins, pc, required, optional, date_errors,
                   xml_dict, log, raised, ran, failed, base_errors>>

\* the end of build_metadata_dict: required-field enforcement, the logs, and
\* either the raise or the return
Enforce ==
    /\ pc = "plugins"
    /\ step > Len(plugins)
    /\ LET errs == Synthesize(metadata_dict, errors, RequiredOrder)
           required_errors == RequiredErrors(errs)
       IN /\ errors' = errs
          /\ IF Len(required_errors) > 0
             THEN /\ log' = log \o LogEntries("exception", required_errors)
                  /\ raised' = [type |-> "DOIMetadataException",
                                keys |-> KeysOf(required_errors)]
                  /\ pc' = "raised"
             ELSE /\ log' = log \o OptionalLog(errs)
                  /\ raised' = raised
                  /\ pc' = "returned"
    /\ UNCHANGED <<pkg_dict, env, plugins, step, required, optional, date_errors,
                   metadata_dict, xml_dict, calls, ran, failed, base_errors>>

\* build_xml_dict up to its plugin loop
BuildXml ==
    /\ pc = "returned"
    /\ LET x == XmlDict(metadata_dict)
       IN IF x.ok
          THEN /\ xml_dict' = x.v
               /\ pc' = "xmlplugins"
               /\ step' = 1
               /\ raised' = raised
          ELSE /\ pc' = "raised"
               /\ raised' = [type |-> x.e, keys |-> <<>>]
               /\ UNCHANGED <<xml_dict, step>>
    /\ UNCHANGED <<pkg_dict, env, plugins, required, optional, errors, date_errors,
                   metadata_dict, log, calls, ran, failed, base_errors>>

\* one turn of the plugin loop of build_xml_dict
PluginXmlStep ==
    /\ pc = "xmlplugins"
    /\ step <= Len(plugins)
    /\ xml_dict' = PluginXml(PluginAt(plugins, step), metadata_dict, xml_dict)
    /\ calls' = Append(calls, [pass |-> "xml", plugin |-> PluginAt(plugins, step)])
    /\ step' = step + 1
    /\ UNCHANGED <<pkg_dict, env, plugins, pc, required, optional, errors, date_errors,
                   metadata_dict, log, raised, ran, failed, base_errors>>

\* return xml_dict
ReturnXml ==
    /\ pc = "xmlplugins"
    /\ step > Len(plugins)
    /\ pc' = "done"
    /\ UNCHANGED <<pkg_dict, env, plugins, step, required, optional, errors, date_errors,
                   metadata_dict, xml_dict, log, calls, raised, ran, failed, base_errors>>

Next ==
    \/ Derive
    \/ PluginMetadataStep
    \/ Enforce
    \/ BuildXml
    \/ PluginXmlStep
    \/ ReturnXml

Spec == Init /\ [][Next]_vars

-----------------------------------------------------------------------------
(* Properties *)

AllFields == {FieldOrder[i] : i \in 1..Len(FieldOrder)}

Range(q) == {q[i] : i \in 1..Len(q)}

\* the base extraction is over and no plugin has run yet
BaseExtracted == pc = "plugins" /\ step = 1

\* build_metadata_dict has returned a record
Returned == pc \in {"returned", "xmlplugins", "done"}

\* C1: whenever the derivation of a field fails, the failure is stored in the
\* error map under that field's key and no failure stops the extraction: every
\* other field is still derived.
C1_FieldFailuresAreIsolated ==
    /\ (pc = "derive" \/ BaseExtracted) => failed \subseteq ErrKeys(errors)
    /\ (failed # {} /\ pc # "derive") => ran = AllFields

\* the required keys with an entry in the error map or a None value
C2_Affected(md, errs) ==
    {k \in RequiredKeys : (\E i \in 1..Len(errs) : errs[i].k = k) \/ Get(md, k) = PNone}

\* C2: after the plugins have run, build_metadata_dict raises
\* DOIMetadataException exactly when some required key has an entry in the
\* error map or a None value; the exception names every such key, and a
\* returned record has a non-None value under every required key.
C2_RaisesExactlyOnAffectedRequiredKeys ==
    [][(pc = "plugins" /\ pc' # "plugins") =>
          LET affected == C2_Affected(metadata_dict, errors)
          IN /\ (pc' = "raised") <=> (affected # {})
             /\ pc' = "raised" =>
                   /\ raised'.type = "DOIMetadataException"
                   /\ Range(raised'.keys) = affected
                   /\ Len(raised'.keys) = Cardinality(affected)
             /\ pc' # "raised" =>
                   /\ pc' = "returned"
                   /\ metadata_dict' = metadata_dict
                   /\ \A k \in RequiredKeys : metadata_dict'[k] # PNone]_vars

\* C2 witness: a failure naming two required keys after a plugin has run
C2_Witness ==
    /\ pc = "raised"
    /\ raised.type = "DOIMetadataException"
    /\ Len(raised.keys) >= 2
    /\ plugins # <<>>
    /\ \E k \in Range(raised.keys) : metadata_dict[k] # PNone
    /\ \E k \in Range(raised.keys) : k \notin ErrKeys(base_errors)

\* the required keys whose input is missing
C3_Affected ==
    {k \in RequiredKeys :
        \/ k = "creators" /\ "author" \notin DOMAIN pkg_dict
        \/ k = "titles" /\ Get(pkg_dict, "title") = PNone
        \/ k = "resourceType" /\ Get(pkg_dict, "type") = PNone
        \/ k = "publisher" /\ env.publisher = PNone}

\* C3: with no plugin registered, a package that misses the input of a
\* required key makes build_metadata_dict fail with one error naming every
\* affected required key, and no record is returned.
C3_MissingRequiredInputFails ==
    (plugins = <<>> /\ C3_Affected # {} /\ pc \notin {"derive", "plugins"}) =>
        /\ pc = "raised"
        /\ raised.type = "DOIMetadataException"
        /\ C3_Affected \subseteq Range(raised.keys)

\* C4: when build_metadata_dict succeeds, an optional field whose derivation
\* failed carries its default value, never the entries built before the failure.
C4_MalformedOptionalKeepsDefault ==
    (plugins = <<>> /\ Returned) =>
        \A k \in OptionalKeys : k \in ErrKeys(errors) => metadata_dict[k] = OptionalInit[k]

\* a value that is not None and has a length greater than zero
C5_NonEmpty(v) ==
    /\ v.t \in {"str", "list", "dict"}
    /\ v # PStr("") /\ v # PChars(<<>>) /\ v # PList(<<>>) /\ v # PDict(EmptyDict)

\* C5: the document build_xml_dict builds, before the plugins change it, holds
\* creators, titles, publisher, schemaVersion, types (the resourceType and the
\* general type 'Dataset') and a publicationYear that is a string, and holds
\* an optional key exactly when the record's value is not None and not empty.
C5_ProjectionKeepsNonEmptyOptionals ==
    (pc = "xmlplugins" /\ step = 1) =>
        /\ {"creators", "titles", "publisher", "schemaVersion", "types", "publicationYear"}
               \subseteq DOMAIN xml_dict
        /\ xml_dict["types"] = PDict([resourceType |-> metadata_dict["resourceType"],
                                      resourceTypeGeneral |-> PStr("Dataset")])
        /\ xml_dict["publicationYear"].t = "str"
        /\ \A k \in OptionalKeys :
               k \in DOMAIN xml_dict <=> C5_NonEmpty(metadata_dict[k])

\* C5 witness: a record with a number, a None, an empty string and an empty
\* list under optional keys, next to optional keys that are kept
C5_Witness ==
    /\ pc = "xmlplugins" /\ step = 1
    /\ metadata_dict["sizes"] = PInt(5) /\ "sizes" \notin DOMAIN xml_dict
    /\ metadata_dict["formats"] = PNone /\ "formats" \notin DOMAIN xml_dict
    /\ metadata_dict["language"] = PStr("") /\ "language" \notin DOMAIN xml_dict
    /\ metadata_dict["subjects"] = PList(<<>>) /\ "subjects" \notin DOMAIN xml_dict
    /\ "dates" \in DOMAIN xml_dict /\ "version" \in DOMAIN xml_dict
    /\ xml_dict["publicationYear"] = PChars(<<"2", "0", "2", "6">>)

\* the record and error map after the plugins ps ran one after the other,
\* each on what the one before returned
RECURSIVE C6_MetadataAfter(_, _, _)
C6_MetadataAfter(ps, md, errs) ==
    IF ps = <<>> THEN [md |-> md, errs |-> errs]
    ELSE LET r == PluginMetadata(Head(ps), pkg_dict, md, errs)
         IN C6_MetadataAfter(Tail(ps), r.md, r.errs)

RECURSIVE C6_XmlAfter(_, _, _)
C6_XmlAfter(ps, md, xml) ==
    IF ps = <<>> THEN xml
    ELSE C6_XmlAfter(Tail(ps), md, PluginXml(Head(ps), md, xml))

C6_Calls(pass, n) == [i \in 1..n |-> [pass |-> pass, plugin |-> plugins[i]]]

\* C6: in both passes every registered plugin is called exactly once, in
\* registration order, on the record (document) and error map the plugin
\* before it returned.
C6_PluginsRunOnceInRegistrationOrder ==
    /\ pc = "plugins" =>
          /\ calls = C6_Calls("metadata", step - 1)
          /\ [md |-> metadata_dict, errs |-> errors]
                 = C6_MetadataAfter(SubSeq(plugins, 1, step - 1), optional @@ required,
                                    base_errors)
    /\ pc = "returned" => calls = C6_Calls("metadata", Len(plugins))
    /\ pc = "xmlplugins" =>
          /\ calls = C6_Calls("metadata", Len(plugins)) \o C6_Calls("xml", step - 1)
          /\ xml_dict = C6_XmlAfter(SubSeq(plugins, 1, step - 1), metadata_dict,
                                    XmlDict(metadata_dict).v)
    /\ pc = "done" =>
          /\ calls = C6_Calls("metadata", Len(plugins)) \o C6_Calls("xml", Len(plugins))
          /\ xml_dict = C6_XmlAfter(plugins, metadata_dict, XmlDict(metadata_dict).v)

\* C6 witness: two different plugins, the second appending to what the first
\* appended, in both passes
C6_Witness ==
    /\ pc = "done"
    /\ plugins = <<"append_a", "append_b">>
    /\ metadata_dict["version"] = PStr("1ab")
    /\ xml_dict["version"] = PStr("1abab")

\* C7: publicationYear is the first four characters of doi_date_published
\* when that value is present and these are four decimal digits, and the
\* current year in every other case; a year taken from doi_date_published is
\* four decimal digits.
C7_PublicationYearIsFourDigitsOrCurrentYear ==
    "publicationYear" \in ran =>
        LET d == Get(pkg_dict, "doi_date_published")
            year == required["publicationYear"]
            dated == /\ d.t = "str" /\ "chars" \in DOMAIN d /\ Len(d.chars) >= 4
                     /\ \A i \in 1..4 : d.chars[i] \in Digits
        IN /\ IF dated THEN year = PChars(SubSeq(d.chars, 1, 4))
              ELSE year = PInt(CurrentYear)
           /\ year.t = "str" =>
                 Len(year.chars) = 4 /\ \A i \in 1..4 : year.chars[i] \in Digits

\* C8: rightsList is the one SPDX entry for 'cc-by-4.0-international';
\* otherwise, for a non-empty identifier, the registry's entry when the
\* registry knows it and nothing when it does not; otherwise the one entry
\* {rights: identifier}.
C8_RightsListPrecedence ==
    "rightsList" \in ran =>
        LET id == LicenseId(pkg_dict)
            rl == optional["rightsList"]
            known == /\ ~env.registry_raises
                     /\ id.t = "str" /\ "s" \in DOMAIN id /\ id.s \in DOMAIN env.registry
        IN IF id = PStr("cc-by-4.0-international")
           THEN rl = PList(<<PDict(
                         [rightsUri |-> PStr("https://spdx.org/licenses/CC-BY-4.0.html"),
                          rightsIdentifier |-> PStr("CC-BY-4.0"),
                          rightsIdentifierScheme |-> PStr("SPDX")])>>)
           ELSE IF id # PStr("") /\ id # PNone
           THEN IF known
                THEN rl = PList(<<PDict([rightsUri |-> env.registry[id.s].url,
                                         rightsIdentifier |-> env.registry[id.s].id])>>)
                ELSE rl = PList(<<>>)
           ELSE rl = PList(<<PDict([rights |-> id])>>)

\* C8 witness: a license_id and license of None give the entry {rights: None}
C8_Witness ==
    /\ "rightsList" \in ran
    /\ "license" \in DOMAIN pkg_dict
    /\ LicenseId(pkg_dict) = PNone
    /\ optional["rightsList"] = PList(<<PDict([rights |-> PNone])>>)

\* the author value is text of a list of mappings that each hold every key
C9_WellFormedAuthor ==
    LET a == Get(pkg_dict, "author")
    IN /\ a.t = "str" /\ "parse" \in DOMAIN a /\ a.parse.t = "list"
       /\ \A i \in 1..Len(a.parse.l) :
             /\ a.parse.l[i].t = "dict"
             /\ Range(AuthorKeys) \subseteq DOMAIN a.parse.l[i].d

\* C9: an author value that is malformed or no list leaves an error under
\* 'creators' and never a partial list, so that the extraction fails when no
\* plugin is registered.
C9_MalformedAuthorIsACreatorsError ==
    (~C9_WellFormedAuthor /\ "creators" \in ran) =>
        /\ required["creators"] = PList(<<>>)
        /\ "creators" \in ErrKeys(IF pc = "derive" THEN errors ELSE base_errors)
        /\ (plugins = <<>> /\ pc \notin {"derive", "plugins"}) => pc = "raised"

\* C10: when build_metadata_dict returns although optional keys have an entry
\* in the error map, it has logged these entries.
C10_OptionalErrorsAreLogged ==
    (pc = "returned" /\ OptionalErrors(errors) # <<>>) =>
        \E i \in 1..Len(log) :
            log[i].level = "debug" /\ log[i].keys = KeysOf(OptionalErrors(errors))

====
